---- MODULE Spec2Model ----
(***************************************************************************)
(* The Composite fleet model of Lab2/main.py: FleetComponent, FleetGroup,  *)
(* Vehicle and the console application FleetConsoleApp.                    *)
(*                                                                         *)
(* Text is a sequence of one-character strings, so that strip, isdigit,    *)
(* int, capitalize and "\n".join act on characters as they do in Python.   *)
(* TLA+ strings are ASCII: the Cyrillic literals of the source are written *)
(* in English, a fixed message is one token, and the character U+00B2      *)
(* (superscript two) is the token "sup2".                                  *)
(*                                                                         *)
(* Objects live in the heap objs; an object's identity is its index there. *)
(***************************************************************************)
EXTENDS Naturals, Integers, Sequences, FiniteSets, TLC

VARIABLES
    objs,           \* the heap: objs[i] is the object with identity i
    energy_groups,  \* FleetConsoleApp.energy_groups: tag -> identity of its group
    pc,             \* where run() is: "menu", "name", "source", "done", "crashed"; "client" under SpecApi
    name,           \* the local name of _handle_add_vehicle while it waits for the source
    out,            \* the text of the last print other than a menu or a prompt
    raised,         \* the exception the last step raised, "none" when it returned
    history,        \* the completed additions, oldest first (a record of the run, not program state)
    calls           \* the direct add/remove calls made so far (SpecApi)

vars == <<objs, energy_groups, pc, name, out, raised, history, calls>>

\* ---------------------------------------------------------------- bounds

\* Additions one run may complete.
MaxVehicles == 3

\* Additions made before a client takes the objects over (SpecApi).
MaxBuilt == 2

\* Direct add/remove calls a client of the classes makes (SpecApi).
MaxCalls == 1

\* ------------------------------------------------------------------ text

NL == "\n"

Whitespace == {" "}

\* str.isdecimal characters: int() reads them.
DecimalChars == {"0", "1", "2", "3", "4", "5", "6", "7", "8", "9"}

\* str.isdigit characters: the decimal ones and digits such as U+00B2 that int() rejects.
DigitChars == DecimalChars \cup {"sup2"}

DigitValue(c) ==
    CASE c = "0" -> 0 [] c = "1" -> 1 [] c = "2" -> 2 [] c = "3" -> 3 [] c = "4" -> 4
      [] c = "5" -> 5 [] c = "6" -> 6 [] c = "7" -> 7 [] c = "8" -> 8 [] c = "9" -> 9

RECURSIVE lstrip(_)
lstrip(s) ==
    IF s # <<>> /\ Head(s) \in Whitespace THEN lstrip(Tail(s)) ELSE s

RECURSIVE rstrip(_)
rstrip(s) ==
    IF s # <<>> /\ s[Len(s)] \in Whitespace THEN rstrip(SubSeq(s, 1, Len(s) - 1)) ELSE s

\* str.strip()
strip(s) == rstrip(lstrip(s))

\* str.isdigit(): non-empty and every character a digit.
isdigit(s) == s # <<>> /\ \A i \in 1..Len(s) : s[i] \in DigitChars

\* int(s) succeeds exactly when every character is a decimal digit (s is stripped
\* and isdigit here); otherwise it raises ValueError.
int_ok(s) == s # <<>> /\ \A i \in 1..Len(s) : s[i] \in DecimalChars

RECURSIVE int(_)
int(s) ==
    IF s = <<>> THEN 0 ELSE 10 * int(SubSeq(s, 1, Len(s) - 1)) + DigitValue(s[Len(s)])

upper(c) ==
    CASE c = "e" -> "E" [] c = "g" -> "G" [] c = "h" -> "H" [] c = "a" -> "A" [] c = "b" -> "B"
      [] OTHER -> c

lower(c) ==
    CASE c = "E" -> "e" [] c = "G" -> "g" [] c = "H" -> "h" [] c = "A" -> "a" [] c = "B" -> "b"
      [] OTHER -> c

\* str.capitalize(): the first character upper-cased, the rest lower-cased.
capitalize(s) ==
    IF s = <<>> THEN <<>>
    ELSE <<upper(s[1])>> \o [i \in 1..(Len(s) - 1) |-> lower(s[i + 1])]

\* " " * indent
spaces(n) == [i \in 1..n |-> " "]

\* sep.join(parts)
RECURSIVE join(_, _)
join(sep, parts) ==
    IF parts = <<>> THEN <<>>
    ELSE IF Len(parts) = 1 THEN parts[1]
    ELSE parts[1] \o sep \o join(sep, Tail(parts))

\* ------------------------------------------------------------ components

\* FleetGroup.__init__
FleetGroup(n) == [cls |-> "FleetGroup", name |-> n, children |-> <<>>]

\* Vehicle, a dataclass of name and energy_source
Vehicle(n, e) == [cls |-> "Vehicle", name |-> n, energy_source |-> e]

\* a == b in Python: identity for a FleetGroup (object.__eq__), field by field for two
\* Vehicles (the __eq__ that @dataclass generates).
py_eq(o, a, b) ==
    \/ a = b
    \/ /\ o[a].cls = "Vehicle" /\ o[b].cls = "Vehicle"
       /\ o[a].name = o[b].name
       /\ o[a].energy_source = o[b].energy_source

\* Mutant: the component is inserted at the front.
FleetGroup_add_front(o, self, component) ==
    [o EXCEPT ![self].children = <<component>> \o @]

\* FleetGroup.add: the heap after self._children.append(component)
FleetGroup_add(o, self, component) ==
    [o EXCEPT ![self].children = Append(@, component)]

\* list.index as list.remove uses it: the first position whose item is, or equals, x;
\* 0 when there is none.
RECURSIVE list_find(_, _, _, _)
list_find(o, list, x, i) ==
    IF i > Len(list) THEN 0
    ELSE IF py_eq(o, list[i], x) THEN i
    ELSE list_find(o, list, x, i + 1)

\* Mutant: every match is removed, not the first alone.
list_remove_all(o, list, x) ==
    SelectSeq(list, LAMBDA y : ~py_eq(o, y, x))

\* list.remove(x) on a list that holds a match: the list without its first match.
list_remove(o, list, x) ==
    LET i == list_find(o, list, x, 1)
    IN  SubSeq(list, 1, i - 1) \o SubSeq(list, i + 1, Len(list))

\* Vehicle.display and FleetGroup.display
RECURSIVE display(_, _, _)
RECURSIVE display_children(_, _, _)
display(o, self, indent) ==
    IF o[self].cls = "Vehicle"
    THEN spaces(indent) \o o[self].name \o <<" ", "(">> \o o[self].energy_source \o <<")">>
    ELSE join(<<NL>>, <<spaces(indent) \o o[self].name \o <<":">>>>
                        \o display_children(o, o[self].children, indent + 2))

\* the loop of FleetGroup.display: one rendered text per child, in order
display_children(o, list, indent) ==
    IF list = <<>> THEN <<>>
    ELSE <<display(o, Head(list), indent)>> \o display_children(o, Tail(list), indent)

\* ----------------------------------------------------------- application

\* the identity of FleetConsoleApp.root_group, the first object constructed
root_group == 1

\* the name of the root group
RootName == <<"F", "l", "e", "e", "t">>

\* the list sources of _ask_energy_source
sources ==
    << <<"e", "l", "e", "c", "t", "r", "i", "c", "i", "t", "y">>,
       <<"g", "a", "s", "o", "l", "i", "n", "e">>,
       <<"g", "a", "s">>,
       <<"h", "y", "b", "r", "i", "d">> >>

MsgWelcome == <<"Welcome to the fleet management system!">>
MsgBye == <<"Goodbye!">>
MsgUnknown == <<"Unknown command. Try again.">>
MsgEmptyName == <<"The bus name must not be empty.">>
MsgNeedNumber == <<"Enter the number of an option.">>
MsgNoSource == <<"There is no such energy source.">>
MsgAdded(n, e) ==
    <<"Bus '">> \o n \o <<"' with energy source '">> \o e \o <<"' added to the fleet.">>

\* Lines typed at the main menu.
MenuLines ==
    { <<"1">>, <<" ", "1", " ">>, <<"2">>, <<"2", " ">>, <<"3">>, <<" ", "3">>,
      <<"4">>, <<"1", "2">>, <<"x">>, <<>> }

\* Lines typed at the name prompt.
NameLines ==
    { <<>>, <<" ">>, <<" ", " ">>, <<"A">>, <<" ", "A", " ">>, <<"B">>, <<"B", " ">> }

\* Lines typed at the energy-source menu.
SourceLines ==
    { <<"1">>, <<" ", "1">>, <<"4">>, <<"4", " ">>, <<"0">>, <<"5">>, <<"1", "2">>,
      <<"x">>, <<"1", "x">>, <<>>, <<" ">>, <<"sup2">>, <<"1", "sup2">> }

\* _ask_energy_source on the line typed: the exception raised if any, whether None is
\* returned, the tag returned (sources is 0-based in Python, 1-based here), the message printed
ask_energy_source(line) ==
    LET choice == strip(line)
    IN  IF ~isdigit(choice)
        THEN [raised |-> "none", none |-> TRUE, value |-> <<>>, out |-> MsgNeedNumber]
        ELSE IF ~int_ok(choice)
        THEN [raised |-> "ValueError", none |-> TRUE, value |-> <<>>, out |-> <<>>]
        ELSE LET index == int(choice) - 1
             IN  IF index < 0 \/ index >= Len(sources)
                 THEN [raised |-> "none", none |-> TRUE, value |-> <<>>, out |-> MsgNoSource]
                 ELSE [raised |-> "none", none |-> FALSE, value |-> sources[index + 1], out |-> <<>>]

\* Mutant: the membership test is missing, every call creates and registers a group.
get_or_create_always(o, eg, energy_source) ==
    LET group == Len(o) + 1
        o1 == Append(o, FleetGroup(capitalize(energy_source)))
        eg1 == (energy_source :> group) @@ eg
        o2 == FleetGroup_add(o1, root_group, group)
    IN  [objs |-> o2, energy_groups |-> eg1, group |-> eg1[energy_source]]

\* Mutant: the new group is registered but never added to the root.
get_or_create_detached(o, eg, energy_source) ==
    IF energy_source \notin DOMAIN eg
    THEN LET group == Len(o) + 1
             o1 == Append(o, FleetGroup(capitalize(energy_source)))
             eg1 == eg @@ (energy_source :> group)
         IN  [objs |-> o1, energy_groups |-> eg1, group |-> eg1[energy_source]]
    ELSE [objs |-> o, energy_groups |-> eg, group |-> eg[energy_source]]

\* _get_or_create_energy_group: the heap and the map after the call, and the group returned
get_or_create_energy_group(o, eg, energy_source) ==
    IF energy_source \notin DOMAIN eg
    THEN LET group == Len(o) + 1
             o1 == Append(o, FleetGroup(capitalize(energy_source)))
             eg1 == eg @@ (energy_source :> group)
             o2 == FleetGroup_add(o1, root_group, group)
         IN  [objs |-> o2, energy_groups |-> eg1, group |-> eg1[energy_source]]
    ELSE [objs |-> o, energy_groups |-> eg, group |-> eg[energy_source]]

\* Mutant: a vehicle equal to one the group already holds is not added again.
add_vehicle_dedup(o, eg, n, energy_source) ==
    LET g == get_or_create_energy_group(o, eg, energy_source)
        vehicle == Len(g.objs) + 1
        o1 == Append(g.objs, Vehicle(n, energy_source))
    IN  IF list_find(o1, o1[g.group].children, vehicle, 1) # 0
        THEN [objs |-> g.objs, energy_groups |-> g.energy_groups]
        ELSE [objs |-> FleetGroup_add(o1, g.group, vehicle), energy_groups |-> g.energy_groups]

\* _handle_add_vehicle from line 89 on: the heap and the map after the vehicle is added
add_vehicle(o, eg, n, energy_source) ==
    LET g == get_or_create_energy_group(o, eg, energy_source)
        vehicle == Len(g.objs) + 1
        o1 == Append(g.objs, Vehicle(n, energy_source))
    IN  [objs |-> FleetGroup_add(o1, g.group, vehicle), energy_groups |-> g.energy_groups]

\* FleetConsoleApp.__init__ and the first print of run()
Init ==
    /\ objs = <<FleetGroup(RootName)>>
    /\ energy_groups = <<>>
    /\ pc = "menu"
    /\ name = <<>>
    /\ out = MsgWelcome
    /\ raised = "none"
    /\ history = <<>>
    /\ calls = 0

\* run(), choice "1": _handle_add_vehicle starts and asks for the name
ChooseAdd(line) ==
    /\ pc = "menu"
    /\ strip(line) = <<"1">>
    /\ pc' = "name"
    /\ UNCHANGED <<objs, energy_groups, name, out, raised, history, calls>>

\* Mutant: rendering walks the root's children by popping them.
ShowFleet_popping(line) ==
    /\ pc = "menu"
    /\ strip(line) = <<"2">>
    /\ out' = <<NL>> \o display(objs, root_group, 0)
    /\ objs' = [objs EXCEPT ![root_group].children = <<>>]
    /\ UNCHANGED <<energy_groups, pc, name, raised, history, calls>>

\* run(), choice "2": print("\n" + self.root_group.display())
ShowFleet(line) ==
    /\ pc = "menu"
    /\ strip(line) = <<"2">>
    /\ out' = <<NL>> \o display(objs, root_group, 0)
    /\ UNCHANGED <<objs, energy_groups, pc, name, raised, history, calls>>

\* run(), choice "3": the farewell and break
Exit(line) ==
    /\ pc = "menu"
    /\ strip(line) = <<"3">>
    /\ out' = MsgBye
    /\ pc' = "done"
    /\ UNCHANGED <<objs, energy_groups, name, raised, history, calls>>

\* run(), any other choice
UnknownCommand(line) ==
    /\ pc = "menu"
    /\ strip(line) \notin {<<"1">>, <<"2">>, <<"3">>}
    /\ out' = MsgUnknown
    /\ UNCHANGED <<objs, energy_groups, pc, name, raised, history, calls>>

\* Mutant: the emptiness test is missing.
ReadName_unchecked(line) ==
    /\ pc = "name"
    /\ name' = strip(line)
    /\ pc' = "source"
    /\ UNCHANGED <<objs, energy_groups, out, raised, history, calls>>

\* _handle_add_vehicle, the name read: an empty name returns to run()'s loop
ReadName(line) ==
    /\ pc = "name"
    /\ IF strip(line) = <<>>
       THEN /\ out' = MsgEmptyName
            /\ pc' = "menu"
            /\ name' = <<>>
       ELSE /\ name' = strip(line)
            /\ pc' = "source"
            /\ out' = out
    /\ UNCHANGED <<objs, energy_groups, raised, history, calls>>

\* Mutant: a rejected selection asks for the selection again and keeps the name.
ReadSource_reprompt(line) ==
    /\ pc = "source"
    /\ UNCHANGED calls
    /\ LET r == ask_energy_source(line)
       IN  IF r.raised # "none"
           THEN /\ pc' = "crashed"
                /\ raised' = r.raised
                /\ UNCHANGED <<objs, energy_groups, name, out, history>>
           ELSE IF r.none
           THEN /\ out' = r.out
                /\ UNCHANGED <<objs, energy_groups, pc, name, raised, history>>
           ELSE /\ Len(history) < MaxVehicles
                /\ LET a == add_vehicle(objs, energy_groups, name, r.value)
                   IN  /\ objs' = a.objs
                       /\ energy_groups' = a.energy_groups
                       /\ out' = MsgAdded(name, r.value)
                       /\ history' = Append(history, [name |-> name, energy_source |-> r.value])
                /\ pc' = "menu"
                /\ name' = <<>>
                /\ UNCHANGED raised

\* _handle_add_vehicle from _ask_energy_source on
ReadSource(line) ==
    /\ pc = "source"
    /\ UNCHANGED calls
    /\ LET r == ask_energy_source(line)
       IN  IF r.raised # "none"
           THEN \* int() raised: nothing catches it, run() ends with the traceback
                /\ pc' = "crashed"
                /\ raised' = r.raised
                /\ UNCHANGED <<objs, energy_groups, name, out, history>>
           ELSE IF r.none
           THEN /\ out' = r.out
                /\ pc' = "menu"
                /\ name' = <<>>
                /\ UNCHANGED <<objs, energy_groups, raised, history>>
           ELSE /\ Len(history) < MaxVehicles
                /\ LET energy_source == r.value
                       a == add_vehicle(objs, energy_groups, name, energy_source)
                   IN  /\ objs' = a.objs
                       /\ energy_groups' = a.energy_groups
                       /\ out' = MsgAdded(name, energy_source)
                       /\ history' = Append(history, [name |-> name, energy_source |-> energy_source])
                /\ pc' = "menu"
                /\ name' = <<>>
                /\ UNCHANGED raised

Next ==
    \/ \E line \in MenuLines : ChooseAdd(line)
    \/ \E line \in MenuLines : ShowFleet(line)
    \/ \E line \in MenuLines : Exit(line)
    \/ \E line \in MenuLines : UnknownCommand(line)
    \/ \E line \in NameLines : ReadName(line)
    \/ \E line \in SourceLines : ReadSource(line)

Spec == Init /\ [][Next]_vars

\* ------------------------------------------------- the classes, called directly

\* Mutant: add on a leaf returns without doing anything.
component_add_silent(o, self, component) ==
    IF o[self].cls = "FleetGroup"
    THEN [objs |-> FleetGroup_add(o, self, component), raised |-> "none"]
    ELSE [objs |-> o, raised |-> "none"]

\* component.add(x) by method resolution: FleetGroup overrides add, Vehicle inherits
\* FleetComponent.add, which raises. The heap after the call and the exception raised.
component_add(o, self, component) ==
    IF o[self].cls = "FleetGroup"
    THEN [objs |-> FleetGroup_add(o, self, component), raised |-> "none"]
    ELSE [objs |-> o, raised |-> "NotImplementedError"]

\* FleetGroup.remove: list.remove raises ValueError when nothing matches
FleetGroup_remove(o, self, component) ==
    IF list_find(o, o[self].children, component, 1) = 0
    THEN [objs |-> o, raised |-> "ValueError"]
    ELSE [objs |-> [o EXCEPT ![self].children = list_remove(o, @, component)],
          raised |-> "none"]

\* component.remove(x) by method resolution, as component_add
component_remove(o, self, component) ==
    IF o[self].cls = "FleetGroup"
    THEN FleetGroup_remove(o, self, component)
    ELSE [objs |-> o, raised |-> "NotImplementedError"]

\* The names and tags a run can add.
Names == {strip(line) : line \in NameLines} \ {<<>>}
Tags == {ask_energy_source(line).value : line \in SourceLines} \ {<<>>}
Additions == [name : Names, energy_source : Tags]
Histories == UNION {[1..n -> Additions] : n \in 0..MaxBuilt}

\* The heap and the map after the additions h, from the state __init__ leaves.
RECURSIVE after(_)
after(h) ==
    IF h = <<>>
    THEN [objs |-> <<FleetGroup(RootName)>>, energy_groups |-> <<>>]
    ELSE LET s == after(SubSeq(h, 1, Len(h) - 1))
         IN  add_vehicle(s.objs, s.energy_groups, h[Len(h)].name, h[Len(h)].energy_source)

\* A client of the classes holds the objects some run has built.
InitApi ==
    \E h \in Histories :
        /\ objs = after(h).objs
        /\ energy_groups = after(h).energy_groups
        /\ pc = "client"
        /\ name = <<>>
        /\ out = <<>>
        /\ raised = "none"
        /\ history = h
        /\ calls = 0

\* the client calls self.add(component)
CallAdd(self, component) ==
    /\ pc = "client"
    /\ calls < MaxCalls
    /\ calls' = calls + 1
    /\ LET r == component_add(objs, self, component)
       IN  objs' = r.objs /\ raised' = r.raised
    /\ UNCHANGED <<energy_groups, pc, name, out, history>>

\* the client calls self.remove(component)
CallRemove(self, component) ==
    /\ pc = "client"
    /\ calls < MaxCalls
    /\ calls' = calls + 1
    /\ LET r == component_remove(objs, self, component)
       IN  objs' = r.objs /\ raised' = r.raised
    /\ UNCHANGED <<energy_groups, pc, name, out, history>>

NextApi ==
    \/ \E self \in DOMAIN objs, component \in DOMAIN objs : CallAdd(self, component)
    \/ \E self \in DOMAIN objs, component \in DOMAIN objs : CallRemove(self, component)

SpecApi == InitApi /\ [][NextApi]_vars

\* ---------------------------------------------------------------- claims

Range(f) == {f[x] : x \in DOMAIN f}

IsGroup(i) == objs[i].cls = "FleetGroup"
IsVehicle(i) == objs[i].cls = "Vehicle"

\* How many times x occurs in the sequence list.
Occurrences(list, x) == Cardinality({i \in DOMAIN list : list[i] = x})

\* The Vehicle leaves under the component self, counted by walking the tree.
RECURSIVE LeavesUnder(_, _)
RECURSIVE LeavesIn(_, _)
LeavesUnder(o, self) ==
    IF o[self].cls = "Vehicle" THEN 1 ELSE LeavesIn(o, o[self].children)

LeavesIn(o, list) ==
    IF list = <<>> THEN 0 ELSE LeavesUnder(o, Head(list)) + LeavesIn(o, Tail(list))

\* C1: after any run of the console, the Vehicle leaves under the root are as many
\* as the additions completed (equal name/tag pairs each count), and every Vehicle
\* is a child, once, of the group registered for its own energy_source.
C1_LeavesMatchAdditions ==
    /\ LeavesUnder(objs, root_group) = Len(history)
    /\ \A v \in DOMAIN objs :
           IsVehicle(v) =>
               /\ objs[v].energy_source \in DOMAIN energy_groups
               /\ Occurrences(objs[energy_groups[objs[v].energy_source]].children, v) = 1
               /\ \A g \in DOMAIN objs :
                      (IsGroup(g) /\ g # energy_groups[objs[v].energy_source])
                          => Occurrences(objs[g].children, v) = 0

\* Two additions of the same name and tag have completed, and a third of another tag.
C1_Witness ==
    /\ Len(history) = 3
    /\ history[1] = history[2]
    /\ history[3].energy_source # history[1].energy_source
    /\ LeavesUnder(objs, root_group) = 3

\* The groups in the heap that were created for the tag t.
GroupsFor(t) == {g \in DOMAIN objs : IsGroup(g) /\ g # root_group /\ objs[g].name = capitalize(t)}

TagsAdded == {history[i].energy_source : i \in DOMAIN history}

\* C2: a tag has a group from the first addition that uses it, no tag ever has more
\* than one group, and energy_groups[tag] is the same group in every later state.
C2_OneGroupPerTag ==
    /\ [](/\ DOMAIN energy_groups = TagsAdded
          /\ \A t \in Range(sources) : Cardinality(GroupsFor(t)) <= 1
          /\ \A t \in DOMAIN energy_groups : GroupsFor(t) = {energy_groups[t]})
    /\ [][\A t \in DOMAIN energy_groups :
              /\ t \in DOMAIN energy_groups'
              /\ energy_groups'[t] = energy_groups[t]
              /\ objs'[energy_groups[t]].cls = "FleetGroup"
              /\ objs'[energy_groups[t]].name = objs[energy_groups[t]].name]_vars

\* A tag has been used by two additions and a second tag by one.
C2_Witness ==
    /\ Len(history) = 3
    /\ history[1].energy_source = history[3].energy_source
    /\ history[2].energy_source # history[1].energy_source
    /\ Cardinality(DOMAIN energy_groups) = 2

\* C3: each group of energy_groups is a direct child of root_group exactly once, and
\* the children of root_group are exactly the groups of energy_groups.
C3_RootChildrenAreTheGroups ==
    /\ \A t \in DOMAIN energy_groups :
           /\ IsGroup(energy_groups[t])
           /\ Occurrences(objs[root_group].children, energy_groups[t]) = 1
    /\ Range(objs[root_group].children) = Range(energy_groups)
    /\ Len(objs[root_group].children) = Cardinality(DOMAIN energy_groups)

\* Two groups are registered and hold three vehicles between them.
C3_Witness ==
    /\ Cardinality(DOMAIN energy_groups) = 2
    /\ Len(objs[root_group].children) = 2
    /\ Len(history) = 3

\* A step of the main menu whose print starts with the blank line of choice "2".
RenderStep == pc = "menu" /\ pc' = "menu" /\ out' # <<>> /\ out'[1] = NL

\* C4: rendering changes neither the tree nor energy_groups; what it prints is the
\* display of the tree as it is, so a render that directly follows a render prints the
\* same text, and a render between additions leaves later additions and renders alone.
C4_RenderIsPure ==
    [][RenderStep =>
          /\ objs' = objs
          /\ energy_groups' = energy_groups
          /\ history' = history
          /\ out' = <<NL>> \o display(objs, root_group, 0)
          /\ (out # <<>> /\ out[1] = NL => out' = out)]_vars

\* The tree of three additions has just been rendered.
C4_Witness ==
    /\ Len(history) = 3
    /\ pc = "menu"
    /\ out = <<NL>> \o display(objs, root_group, 0)

\* The tags of the additions h in the order of their first use.
RECURSIVE FirstUsed(_)
FirstUsed(h) ==
    IF h = <<>> THEN <<>>
    ELSE LET before == FirstUsed(SubSeq(h, 1, Len(h) - 1))
             t == h[Len(h)].energy_source
         IN  IF t \in Range(before) THEN before ELSE Append(before, t)

\* The additions of h with tag t, oldest first.
RECURSIVE AddedWith(_, _)
AddedWith(h, t) ==
    IF h = <<>> THEN <<>>
    ELSE IF Head(h).energy_source = t THEN <<Head(h)>> \o AddedWith(Tail(h), t)
    ELSE AddedWith(Tail(h), t)

\* The lines the tree of the additions h is to render as.
VehicleLines(list) ==
    [i \in DOMAIN list |->
        spaces(4) \o list[i].name \o <<" ", "(">> \o list[i].energy_source \o <<")">>]

RECURSIVE GroupLines(_, _)
GroupLines(h, tags) ==
    IF tags = <<>> THEN <<>>
    ELSE <<spaces(2) \o capitalize(Head(tags)) \o <<":">>>>
           \o VehicleLines(AddedWith(h, Head(tags)))
           \o GroupLines(h, Tail(tags))

IsPrefix(a, b) == Len(a) <= Len(b) /\ SubSeq(b, 1, Len(a)) = a

\* C5: the rendered tree lists the groups in the order in which their tags were
\* first used and, in each group, the vehicles in the order they were added; no
\* step reorders the children a group already has.
C5_InsertionOrder ==
    /\ [](display(objs, root_group, 0)
             = join(<<NL>>, <<RootName \o <<":">>>> \o GroupLines(history, FirstUsed(history))))
    /\ [][\A g \in DOMAIN objs :
              IsGroup(g) => IsPrefix(objs[g].children, objs'[g].children)]_vars

\* The scenario Bus-1/electricity, Bus-2/hybrid, Bus-3/electricity: two vehicles in the
\* first group, then the second group with one.
C5_Witness ==
    /\ Len(history) = 3
    /\ history[1].energy_source = sources[1]
    /\ history[2].energy_source = sources[4]
    /\ history[3].energy_source = sources[1]
    /\ history[1].name # history[3].name
    /\ Len(objs[root_group].children) = 2
    /\ Len(objs[objs[root_group].children[1]].children) = 2

\* C6: add and remove on a Vehicle raise the unsupported-operation error
\* (NotImplementedError), whatever the leaf and the argument, and change no object.
C6_LeafRefusesAddRemove ==
    [][\A self \in DOMAIN objs, component \in DOMAIN objs :
           (IsVehicle(self) /\ (CallAdd(self, component) \/ CallRemove(self, component)))
               => /\ raised' = "NotImplementedError"
                  /\ objs' = objs
                  /\ energy_groups' = energy_groups]_vars

\* A call on a leaf of a tree of two vehicles has raised: the objects are those the
\* run built.
C6_Witness ==
    /\ pc = "client"
    /\ calls = 1
    /\ raised = "NotImplementedError"
    /\ Len(history) = 2
    /\ objs = after(history).objs

\* The positions of list whose item is, or equals, x.
Matches(o, list, x) == {i \in DOMAIN list : py_eq(o, list[i], x)}

Min(S) == CHOOSE i \in S : \A j \in S : i <= j

\* list without its position i
Without(list, i) == [k \in 1..(Len(list) - 1) |-> IF k < i THEN list[k] ELSE list[k + 1]]

C7_WitnessNotFound ==
    /\ pc = "client"
    /\ calls = 1
    /\ raised = "ValueError"
    /\ objs = after(history).objs

\* C8: an empty name (after trimming) is rejected with no change to the tree or to
\* energy_groups, and no Vehicle in the heap ever has an empty name.
C8_EmptyNameRejected ==
    /\ [][\A line \in NameLines :
              (ReadName(line) /\ strip(line) = <<>>)
                  => /\ objs' = objs
                     /\ energy_groups' = energy_groups
                     /\ history' = history
                     /\ out' = MsgEmptyName]_vars
    /\ [](\A v \in DOMAIN objs : IsVehicle(v) => objs[v].name # <<>>)

\* An empty name has just been rejected in a run that has added vehicles.
C8_Witness ==
    /\ out = MsgEmptyName
    /\ pc = "menu"
    /\ Len(history) = 2
    /\ LeavesUnder(objs, root_group) = 2

\* The selection is not made of digits only.
NotANumber(line) ==
    strip(line) = <<>> \/ \E i \in DOMAIN strip(line) : strip(line)[i] \notin DigitChars

\* The selection is a decimal number that names no entry of the menu.
OutOfRange(line) ==
    /\ strip(line) # <<>>
    /\ \A i \in DOMAIN strip(line) : strip(line)[i] \in DecimalChars
    /\ int(strip(line)) \notin 1..Len(sources)

\* The selection is a decimal number that names an entry of the menu.
InRange(line) ==
    /\ strip(line) # <<>>
    /\ \A i \in DOMAIN strip(line) : strip(line)[i] \in DecimalChars
    /\ int(strip(line)) \in 1..Len(sources)

\* C9 as claimed: a rejected input is asked for again: the name prompt follows an
\* empty name, the energy-source menu follows a rejected selection, the name kept.
C9_RepromptsSameInput ==
    [][/\ \A line \in NameLines :
              (ReadName(line) /\ strip(line) = <<>>) => pc' = "name"
       /\ \A line \in SourceLines :
              (ReadSource(line) /\ (NotANumber(line) \/ OutOfRange(line)))
                  => pc' = "source" /\ name' = name]_vars

\* C9 amended: a rejected input ends the dialog: the main menu follows it, the name
\* entered is dropped and nothing is added; a vehicle is added by a valid selection
\* alone, under the name entered just before it.
C9_RejectionReturnsToMenu ==
    [][/\ \A line \in NameLines :
              (ReadName(line) /\ strip(line) = <<>>)
                  => pc' = "menu" /\ name' = <<>> /\ history' = history /\ objs' = objs
       /\ \A line \in SourceLines :
              (ReadSource(line) /\ (NotANumber(line) \/ OutOfRange(line)))
                  => /\ pc' = "menu" /\ name' = <<>> /\ history' = history /\ objs' = objs
                     /\ out' = IF NotANumber(line) THEN MsgNeedNumber ELSE MsgNoSource
       /\ \A line \in SourceLines :
              (ReadSource(line) /\ InRange(line))
                  => /\ pc' = "menu"
                     /\ history' = Append(history, [name |-> name,
                                                   energy_source |-> sources[int(strip(line))]])
       /\ (history' # history => pc = "source" /\ name # <<>>)]_vars

\* A selection out of range has just been rejected: the run is at the main menu,
\* the name is gone and the one vehicle added before is all there is.
C9_Witness ==
    /\ pc = "menu"
    /\ out = MsgNoSource
    /\ name = <<>>
    /\ Len(history) = 1

Prompts == {"menu", "name", "source"}

\* C10: the loop ends through choice 3 alone: no input ends it otherwise or raises;
\* an unknown command, an empty name and a rejected selection leave the tree as it
\* is and the loop at a prompt; choice 3 at the main menu ends it.
C10_LoopEndsOnlyByExit ==
    [][/\ (pc' \notin Prompts => pc' = "done" /\ \E line \in MenuLines : Exit(line))
       /\ raised' = "none"
       /\ \A line \in MenuLines : Exit(line) => pc' = "done"
       /\ \A line \in MenuLines :
              UnknownCommand(line) => pc' \in Prompts /\ objs' = objs
       /\ \A line \in NameLines :
              (ReadName(line) /\ strip(line) = <<>>) => pc' \in Prompts /\ objs' = objs
       /\ \A line \in SourceLines :
              (ReadSource(line) /\ ~InRange(line)) => pc' \in Prompts /\ objs' = objs]_vars

====
